---------------------------- MODULE Spec2Model ----------------------------
(***************************************************************************)
(* cargo-tidy (src/main.rs): the two-stage dependency discovery pipeline.  *)
(*                                                                         *)
(* Text is a sequence of one-character strings.  The backtick cannot be    *)
(* written inside a TLA+ string, so that one character is the value BT.    *)
(* A crate name is such a sequence as well; Str turns it into the TLA+     *)
(* string the allowlist is written with.                                   *)
(*                                                                         *)
(* Two specifications:                                                     *)
(*   Spec    the whole program, main to process exit, with the             *)
(*           environment (current directory, file system, cargo, rustc)    *)
(*           choosing every outcome;                                       *)
(*   SpecFn  the two pure extraction functions applied to every text of    *)
(*           a bounded family.                                             *)
(***************************************************************************)
EXTENDS Integers, Sequences, FiniteSets, TLC

VARIABLES
    pc,             \* position of the program
    out,            \* what has been printed, in order
    cmds,           \* subprocesses spawned (or attempted), in order
    crates,         \* install_crates: its argument
    idx,            \* install_crates: index of the next name
    source_crates,  \* find_missing_crates: result of extract_crates_from_source
    primary,        \* find_missing_crates: result of analyze_missing_crates
    fallback,       \* find_missing_crates: result of analyze_missing_crates_rustc
    exit_code,      \* exit status of the process, -1 while it runs
    fn,             \* SpecFn: the function applied
    text,           \* SpecFn: its input text
    result          \* SpecFn: its return value

vars == <<pc, out, cmds, crates, idx, source_crates, primary, fallback,
          exit_code, fn, text, result>>

-----------------------------------------------------------------------------
(* Characters *)

BT == "BT"

Lower == {"a", "b", "c", "d", "e", "f", "g", "h", "i", "j", "k", "l", "m",
          "n", "o", "p", "q", "r", "s", "t", "u", "v", "w", "x", "y", "z"}

Upper == {"A", "B", "C", "D", "E", "F", "G", "H", "I", "J", "K", "L", "M",
          "N", "O", "P", "Q", "R", "S", "T", "U", "V", "W", "X", "Y", "Z"}

Digit == {"0", "1", "2", "3", "4", "5", "6", "7", "8", "9"}

\* \s of the regex crate: the white space the texts of the model can hold
Space == {" ", "\t", "\n", "\r"}

\* [a-zA-Z_]
IdentStart == Lower \cup Upper \cup {"_"}

\* [a-zA-Z0-9_]
IdentChar == IdentStart \cup Digit

\* The characters of the model's texts in byte order (String's Ord).
ByteOrder == <<"\t", "\n", "\r", " ", "(", ")", "0", "1", "2", "3", "4", "5", "6", "7", "8", "9", ":", ";", "=", "?",
               "A", "B", "C", "D", "E", "F", "G", "H", "I", "J", "K", "L", "M",
               "N", "O", "P", "Q", "R", "S", "T", "U", "V", "W", "X", "Y", "Z", "[", "]", "_", BT,
               "a", "b", "c", "d", "e", "f", "g", "h", "i", "j", "k", "l", "m",
               "n", "o", "p", "q", "r", "s", "t", "u", "v", "w", "x", "y", "z", "{", "}">>

Ord == [c \in {ByteOrder[i] : i \in 1..Len(ByteOrder)} |->
            CHOOSE i \in 1..Len(ByteOrder) : ByteOrder[i] = c]

RECURSIVE Str(_)
Str(name) == IF name = <<>> THEN "" ELSE Head(name) \o Str(Tail(name))

RECURSIVE Concat(_)
Concat(parts) == IF parts = <<>> THEN <<>> ELSE Head(parts) \o Concat(Tail(parts))

-----------------------------------------------------------------------------
(* Regex building blocks *)

\* the literal lit occurs in s at position i
LitAt(lit, s, i) ==
    /\ i >= 1
    /\ i + Len(lit) - 1 <= Len(s)
    /\ \A k \in 1..Len(lit) : s[i + k - 1] = lit[k]

\* a greedy character class run starting at i: the first position at or after i
\* that holds no member of class (Len(s) + 1 when the run reaches the end)
RunEnd(s, i, class) ==
    CHOOSE j \in i..(Len(s) + 1) :
        /\ j = Len(s) + 1 \/ s[j] \notin class
        /\ \A k \in i..(j - 1) : s[k] \in class

\* a greedy negated class run [^...]+ starting at i
NegRunEnd(s, i, excl) ==
    CHOOSE j \in i..(Len(s) + 1) :
        /\ j = Len(s) + 1 \/ s[j] \in excl
        /\ \A k \in i..(j - 1) : s[k] \notin excl

\* (?m)^ : the start of the text or the position after a line feed
LineStart(s, i) == i = 1 \/ s[i - 1] = "\n"

\* v.contains(x) for a name x and a literal lit
Contains(name, lit) == \E i \in 1..Len(name) : LitAt(lit, name, i)

-----------------------------------------------------------------------------
(* is_std_module *)

std_modules ==
    {"std", "core", "alloc", "proc_macro", "test", "collections", "env", "fs",
     "io", "net", "path", "process", "sync", "thread", "time", "fmt", "mem",
     "ptr", "slice", "str", "vec", "hash", "cmp", "ops", "iter", "option",
     "result", "clone", "convert", "default", "drop", "marker", "ascii",
     "char", "f32", "f64", "i8", "i16", "i32", "i64", "i128", "isize", "u8",
     "u16", "u32", "u64", "u128", "usize", "bool", "never", "array", "tuple",
     "unit", "self", "super", "crate"}

is_std_module_none(name) == FALSE

is_std_module(name) == Str(name) \in std_modules

-----------------------------------------------------------------------------
(* Vec<String>::sort on the elements of a HashSet<String> *)

\* a < b as strings: byte-wise lexicographic
StrLess(a, b) ==
    \E k \in 1..(Len(b)) :
        /\ \A j \in 1..(k - 1) : j <= Len(a) /\ a[j] = b[j]
        /\ \/ k = Len(a) + 1
           \/ k <= Len(a) /\ Ord[a[k]] < Ord[b[k]]

RECURSIVE SortVec(_)
SortVec(set) ==
    IF set = {} THEN <<>>
    ELSE LET m == CHOOSE x \in set : \A y \in set \ {x} : StrLess(x, y)
         IN  <<m>> \o SortVec(set \ {m})

IsSorted(v) == \A i \in 1..(Len(v) - 1) : StrLess(v[i], v[i + 1])

Elems(v) == {v[i] : i \in 1..Len(v)}

\* Result<Vec<String>, Box<dyn Error>>, and the value of a local not yet bound
Ok(v) == [ok |-> TRUE, val |-> v, err |-> ""]

Err(e) == [ok |-> FALSE, val |-> <<>>, err |-> e]

Unbound == [ok |-> FALSE, val |-> <<>>, err |-> "unbound"]

-----------------------------------------------------------------------------
(* extract_crates_from_source *)

kw_use == <<"u", "s", "e">>

kw_self == <<"s", "e", "l", "f">>

kw_super == <<"s", "u", "p", "e", "r">>

kw_crate == <<"c", "r", "a", "t", "e">>

\* (?m)^use\s+([a-zA-Z_][a-zA-Z0-9_]*) matches at i.  \s+ is greedy and is
\* followed by a character outside \s, so only the whole run can be followed
\* by the identifier.
UseIdentAt(s, i) == RunEnd(s, i + Len(kw_use), Space)

use_regex_at_unanchored(s, i) ==
    /\ LitAt(kw_use, s, i)
    /\ UseIdentAt(s, i) > i + Len(kw_use)
    /\ UseIdentAt(s, i) <= Len(s)
    /\ s[UseIdentAt(s, i)] \in IdentStart

use_regex_at(s, i) ==
    /\ LineStart(s, i)
    /\ LitAt(kw_use, s, i)
    /\ UseIdentAt(s, i) > i + Len(kw_use)
    /\ UseIdentAt(s, i) <= Len(s)
    /\ s[UseIdentAt(s, i)] \in IdentStart

\* the end of the match at i (one past its last character) and its group 1
use_regex_end(s, i) == RunEnd(s, UseIdentAt(s, i), IdentChar)

use_regex_cap(s, i) == SubSeq(s, UseIdentAt(s, i), use_regex_end(s, i) - 1)

\* the filter of line 97
use_keep(name) ==
    ~is_std_module(name) /\ name # kw_self /\ name # kw_super /\ name # kw_crate

\* captures_iter: leftmost matches, each search resuming where the previous
\* match ended; the loop body inserts into the HashSet
RECURSIVE use_captures_iter(_, _, _)
use_captures_iter(s, from, set) ==
    IF \A i \in from..Len(s) : ~use_regex_at(s, i) THEN set
    ELSE LET i == CHOOSE i \in from..Len(s) :
                      use_regex_at(s, i) /\ \A k \in from..(i - 1) : ~use_regex_at(s, k)
             name == use_regex_cap(s, i)
         IN  use_captures_iter(s, use_regex_end(s, i),
                               IF use_keep(name) THEN set \cup {name} ELSE set)

\* read is the outcome of fs::read_to_string("src/main.rs")
extract_crates_from_source(read) ==
    IF ~read.ok THEN Err(read.err)
    ELSE Ok(SortVec(use_captures_iter(read.val, 1, {})))

-----------------------------------------------------------------------------
(* extract_missing_crates *)

sep == <<":", ":">>

\* The seven patterns of the vec of line 148.  Each is a literal, one group
\* [^...]+ and a literal: pre, the characters the group excludes, post.  The
\* group is greedy and post starts with an excluded character, so the group
\* is the whole run up to the first excluded character.

\* use of undeclared crate or module `([^`]+)`
pattern_1 == [pre |-> <<"u", "s", "e", " ", "o", "f", " ", "u", "n", "d", "e", "c", "l", "a", "r", "e", "d", " ", "c", "r", "a", "t", "e", " ", "o", "r", " ", "m", "o", "d", "u", "l", "e", " ", BT>>, excl |-> {BT}, post |-> <<BT>>]

\* failed to resolve: use of undeclared crate or module `([^`]+)`
pattern_2 == [pre |-> <<"f", "a", "i", "l", "e", "d", " ", "t", "o", " ", "r", "e", "s", "o", "l", "v", "e", ":", " ", "u", "s", "e", " ", "o", "f", " ", "u", "n", "d", "e", "c", "l", "a", "r", "e", "d", " ", "c", "r", "a", "t", "e", " ", "o", "r", " ", "m", "o", "d", "u", "l", "e", " ", BT>>, excl |-> {BT}, post |-> <<BT>>]

\* unresolved import `([^`:]+)`
pattern_3_open == [pre |-> <<"u", "n", "r", "e", "s", "o", "l", "v", "e", "d", " ", "i", "m", "p", "o", "r", "t", " ", BT>>, excl |-> {BT, ":"}, post |-> <<>>]

pattern_3 == [pre |-> <<"u", "n", "r", "e", "s", "o", "l", "v", "e", "d", " ", "i", "m", "p", "o", "r", "t", " ", BT>>, excl |-> {BT, ":"}, post |-> <<BT>>]

\* no external crate `([^`]+)`
pattern_4 == [pre |-> <<"n", "o", " ", "e", "x", "t", "e", "r", "n", "a", "l", " ", "c", "r", "a", "t", "e", " ", BT>>, excl |-> {BT}, post |-> <<BT>>]

\* extern crate `([^`]+)` not found
pattern_5 == [pre |-> <<"e", "x", "t", "e", "r", "n", " ", "c", "r", "a", "t", "e", " ", BT>>, excl |-> {BT}, post |-> <<BT, " ", "n", "o", "t", " ", "f", "o", "u", "n", "d">>]

\* maybe a missing crate `([^`]+)`\?
pattern_6 == [pre |-> <<"m", "a", "y", "b", "e", " ", "a", " ", "m", "i", "s", "s", "i", "n", "g", " ", "c", "r", "a", "t", "e", " ", BT>>, excl |-> {BT}, post |-> <<BT, "?">>]

\* consider adding `extern crate ([^;`]+);`
pattern_7 == [pre |-> <<"c", "o", "n", "s", "i", "d", "e", "r", " ", "a", "d", "d", "i", "n", "g", " ", BT, "e", "x", "t", "e", "r", "n", " ", "c", "r", "a", "t", "e", " ">>, excl |-> {";", BT}, post |-> <<";", BT>>]

patterns == <<pattern_1, pattern_2, pattern_3, pattern_4, pattern_5, pattern_6, pattern_7>>

pattern_cap_end(p, s, i) == NegRunEnd(s, i + Len(p.pre), p.excl)

pattern_at(p, s, i) ==
    /\ LitAt(p.pre, s, i)
    /\ pattern_cap_end(p, s, i) > i + Len(p.pre)
    /\ LitAt(p.post, s, pattern_cap_end(p, s, i))

pattern_end(p, s, i) == pattern_cap_end(p, s, i) + Len(p.post)

pattern_cap(p, s, i) == SubSeq(s, i + Len(p.pre), pattern_cap_end(p, s, i) - 1)

\* the filter of line 162
pattern_keep(name) == ~is_std_module(name) /\ ~Contains(name, sep)

\* the inner loop of lines 159-166 for one pattern
RECURSIVE pattern_captures_iter(_, _, _, _)
pattern_captures_iter(p, s, from, set) ==
    IF \A i \in from..Len(s) : ~pattern_at(p, s, i) THEN set
    ELSE LET i == CHOOSE i \in from..Len(s) :
                      pattern_at(p, s, i) /\ \A k \in from..(i - 1) : ~pattern_at(p, s, k)
             name == pattern_cap(p, s, i)
         IN  pattern_captures_iter(p, s, pattern_end(p, s, i),
                                   IF pattern_keep(name) THEN set \cup {name} ELSE set)

\* the outer loop of line 158
RECURSIVE patterns_loop(_, _, _)
patterns_loop(n, s, set) ==
    IF n > Len(patterns) THEN set
    ELSE patterns_loop(n + 1, s, pattern_captures_iter(patterns[n], s, 1, set))

\* help: consider importing this.*?`([^`:]+)::
help_lit == <<"h", "e", "l", "p", ":", " ", "c", "o", "n", "s", "i", "d", "e", "r", " ", "i", "m", "p", "o", "r", "t", "i", "n", "g", " ", "t", "h", "i", "s">>

\* the backtick at j opens the group: .*? reaches it without crossing a line
\* feed, a non-empty run without backtick and colon follows, then ::
import_open(s, i, j) ==
    /\ s[j] = BT
    /\ \A k \in (i + Len(help_lit))..(j - 1) : s[k] # "\n"
    /\ NegRunEnd(s, j + 1, {BT, ":"}) > j + 1
    /\ LitAt(sep, s, NegRunEnd(s, j + 1, {BT, ":"}))

import_suggestions_at(s, i) ==
    /\ LitAt(help_lit, s, i)
    /\ \E j \in (i + Len(help_lit))..Len(s) : import_open(s, i, j)

\* .*? is lazy: the first backtick that lets the rest match
import_suggestions_open(s, i) ==
    CHOOSE j \in (i + Len(help_lit))..Len(s) :
        import_open(s, i, j) /\ \A k \in (i + Len(help_lit))..(j - 1) : ~import_open(s, i, k)

import_suggestions_cap(s, i) ==
    SubSeq(s, import_suggestions_open(s, i) + 1,
              NegRunEnd(s, import_suggestions_open(s, i) + 1, {BT, ":"}) - 1)

import_suggestions_end(s, i) ==
    NegRunEnd(s, import_suggestions_open(s, i) + 1, {BT, ":"}) + Len(sep)

\* the filter of line 173
import_keep(name) == ~is_std_module(name)

\* the loop of lines 170-177
RECURSIVE import_captures_iter(_, _, _)
import_captures_iter(s, from, set) ==
    IF \A i \in from..Len(s) : ~import_suggestions_at(s, i) THEN set
    ELSE LET i == CHOOSE i \in from..Len(s) :
                      import_suggestions_at(s, i)
                      /\ \A k \in from..(i - 1) : ~import_suggestions_at(s, k)
             name == import_suggestions_cap(s, i)
         IN  import_captures_iter(s, import_suggestions_end(s, i),
                                  IF import_keep(name) THEN set \cup {name} ELSE set)

extract_missing_crates(error_output) ==
    SortVec(import_captures_iter(error_output, 1, patterns_loop(1, error_output, {})))

-----------------------------------------------------------------------------
(* SpecFn: the extraction functions on every text of a bounded family *)

MaxSrcLines == 2

MaxDiagLines == 2

SrcLines == {
    <<"u", "s", "e", " ", "r", "e", "g", "e", "x", ":", ":", "R", "e", "g", "e", "x", ";">>,
    <<"u", "s", "e", " ", "s", "t", "d", ":", ":", "f", "s", ";">>,
    <<"u", "s", "e", " ", "s", "e", "r", "d", "e", ";">>,
    <<"u", "s", "e">>,
    <<"s", "e", "r", "d", "e", ":", ":", "S", "e", "r", "i", "a", "l", "i", "z", "e", ";">>,
    <<"u", "s", "e", " ", "u", "s", "e">>,
    <<" ", "u", "s", "e", " ", "r", "a", "n", "d", ";">>,
    <<"u", "s", "e", "d", " ", "x", ";">>,
    <<"u", "s", "e", " ", " ", "s", "e", "l", "f", ":", ":", "m", ";">>,
    <<"p", "u", "b", " ", "u", "s", "e", " ", "l", "o", "g", ";">>,
    <<"u", "s", "e", " ", "9", "x", ";">>,
    <<"u", "s", "e", " ", "_", "a", "1", ":", ":", "{", "B", "}", ";">>,
    <<>> }

\* the paths the two path-sensitive messages are instantiated with:
\* a and a::b for a in PathHeads and b in PathTails
PathHeads == { <<"b", "a", "r">>, <<"s", "e", "r", "d", "e">> }

PathTails == { <<"b", "a", "z">>, <<"S", "e", "r", "i", "a", "l", "i", "z", "e">>, <<"f", "s">> }

Qualified(a, b) == a \o sep \o b

UnresolvedImport(path) == <<"u", "n", "r", "e", "s", "o", "l", "v", "e", "d", " ", "i", "m", "p", "o", "r", "t", " ", BT>> \o path \o <<BT>>

ConsiderImporting(path) == <<"h", "e", "l", "p", ":", " ", "c", "o", "n", "s", "i", "d", "e", "r", " ", "i", "m", "p", "o", "r", "t", "i", "n", "g", " ", "t", "h", "i", "s", " ", "s", "t", "r", "u", "c", "t", ":", " ", BT>> \o path \o <<BT>>

DiagLines ==
    { <<"e", "r", "r", "o", "r", ":", " ", "u", "s", "e", " ", "o", "f", " ", "u", "n", "d", "e", "c", "l", "a", "r", "e", "d", " ", "c", "r", "a", "t", "e", " ", "o", "r", " ", "m", "o", "d", "u", "l", "e", " ", BT, "f", "o", "o", BT>>,
      <<"f", "a", "i", "l", "e", "d", " ", "t", "o", " ", "r", "e", "s", "o", "l", "v", "e", ":", " ", "u", "s", "e", " ", "o", "f", " ", "u", "n", "d", "e", "c", "l", "a", "r", "e", "d", " ", "c", "r", "a", "t", "e", " ", "o", "r", " ", "m", "o", "d", "u", "l", "e", " ", BT, "f", "o", "o", BT>>,
      <<"u", "s", "e", " ", "o", "f", " ", "u", "n", "d", "e", "c", "l", "a", "r", "e", "d", " ", "c", "r", "a", "t", "e", " ", "o", "r", " ", "m", "o", "d", "u", "l", "e", " ", BT, "s", "t", "d", BT>>,
      <<"u", "s", "e", " ", "o", "f", " ", "u", "n", "d", "e", "c", "l", "a", "r", "e", "d", " ", "c", "r", "a", "t", "e", " ", "o", "r", " ", "m", "o", "d", "u", "l", "e", " ", BT, "f", "o", "o">>,
      <<"u", "n", "r", "e", "s", "o", "l", "v", "e", "d", " ", "i", "m", "p", "o", "r", "t", " ", BT, "c", "r", "a", "t", "e", ":", ":", "x", BT>>,
      <<"u", "n", "r", "e", "s", "o", "l", "v", "e", "d", " ", "i", "m", "p", "o", "r", "t", " ", BT, "a", ":", "b", BT>>,
      <<"n", "o", " ", "e", "x", "t", "e", "r", "n", "a", "l", " ", "c", "r", "a", "t", "e", " ", BT, "r", "a", "n", "d", BT>>,
      <<"n", "o", " ", "e", "x", "t", "e", "r", "n", "a", "l", " ", "c", "r", "a", "t", "e", " ", BT, "a", ":", ":", "b", BT>>,
      <<"e", "x", "t", "e", "r", "n", " ", "c", "r", "a", "t", "e", " ", BT, "l", "o", "g", BT, " ", "n", "o", "t", " ", "f", "o", "u", "n", "d">>,
      <<"e", "x", "t", "e", "r", "n", " ", "c", "r", "a", "t", "e", " ", BT, "l", "o", "g", BT>>,
      <<"m", "a", "y", "b", "e", " ", "a", " ", "m", "i", "s", "s", "i", "n", "g", " ", "c", "r", "a", "t", "e", " ", BT, "t", "o", "k", "i", "o", BT, "?">>,
      <<"m", "a", "y", "b", "e", " ", "a", " ", "m", "i", "s", "s", "i", "n", "g", " ", "c", "r", "a", "t", "e", " ", BT, "i", "o", BT, "?">>,
      <<"c", "o", "n", "s", "i", "d", "e", "r", " ", "a", "d", "d", "i", "n", "g", " ", BT, "e", "x", "t", "e", "r", "n", " ", "c", "r", "a", "t", "e", " ", "s", "e", "r", "d", "e", ";", BT>>,
      <<"h", "e", "l", "p", ":", " ", "c", "o", "n", "s", "i", "d", "e", "r", " ", "i", "m", "p", "o", "r", "t", "i", "n", "g", " ", "t", "h", "i", "s", ":", " ", BT, "s", "t", "d", ":", ":", "f", "s", ":", ":", "F", "i", "l", "e", BT>>,
      <<"h", "e", "l", "p", ":", " ", "c", "o", "n", "s", "i", "d", "e", "r", " ", "i", "m", "p", "o", "r", "t", "i", "n", "g", " ", "t", "h", "i", "s", " ", BT, "x", BT, " ", "i", "t", "e", "m", ":", " ", BT, "b", "a", "r", ":", ":", "B", "a", "z", BT>>,
      <<"w", "a", "r", "n", "i", "n", "g", ":", " ", "u", "n", "u", "s", "e", "d">> }
    \cup {UnresolvedImport(a) : a \in PathHeads}
    \cup {UnresolvedImport(Qualified(a, b)) : a \in PathHeads, b \in PathTails}
    \cup {ConsiderImporting(Qualified(a, b)) : a \in PathHeads, b \in PathTails}

\* every text of at most n lines of lines, each line ended by a line feed
TextsOf(lines, n) ==
    UNION {{Concat([i \in 1..k |-> ls[i] \o <<"\n">>]) : ls \in [1..k -> lines]} : k \in 0..n}

SrcTexts == TextsOf(SrcLines, MaxSrcLines)

DiagTexts == TextsOf(DiagLines, MaxDiagLines)

InitFn ==
    /\ pc = "fn_call"
    /\ fn \in {"extract_crates_from_source", "extract_missing_crates"}
    /\ text \in IF fn = "extract_crates_from_source" THEN SrcTexts ELSE DiagTexts
    /\ result = Ok(<<>>)
    /\ out = <<>> /\ cmds = <<>> /\ crates = <<>> /\ idx = 1
    /\ source_crates = Unbound /\ primary = Unbound /\ fallback = Unbound
    /\ exit_code = -1

CallExtract ==
    /\ pc = "fn_call" /\ fn = "extract_crates_from_source"
    /\ result' = extract_crates_from_source(Ok(text))
    /\ pc' = "fn_return"
    /\ UNCHANGED <<out, cmds, crates, idx, source_crates, primary, fallback,
                   exit_code, fn, text>>

CallMatch ==
    /\ pc = "fn_call" /\ fn = "extract_missing_crates"
    /\ result' = Ok(extract_missing_crates(text))
    /\ pc' = "fn_return"
    /\ UNCHANGED <<out, cmds, crates, idx, source_crates, primary, fallback,
                   exit_code, fn, text>>

NextFn == CallExtract \/ CallMatch

SpecFn == InitFn /\ [][NextFn]_vars

-----------------------------------------------------------------------------
(* Spec: the program *)

MaxDrvLines == 2

\* contents of src/main.rs the file system may hold
DrvSrcLines == {
    <<"u", "s", "e", " ", "r", "e", "g", "e", "x", ":", ":", "R", "e", "g", "e", "x", ";">>,
    <<"u", "s", "e", " ", "s", "t", "d", ":", ":", "f", "s", ";">>,
    <<"u", "s", "e", " ", "s", "e", "r", "d", "e", ";">>,
    <<"f", "n", " ", "m", "a", "i", "n", "(", ")", " ", "{", "}">> }

\* what cargo check and rustc may write to their error streams
DrvDiagLines == {
    <<"e", "r", "r", "o", "r", ":", " ", "u", "s", "e", " ", "o", "f", " ", "u", "n", "d", "e", "c", "l", "a", "r", "e", "d", " ", "c", "r", "a", "t", "e", " ", "o", "r", " ", "m", "o", "d", "u", "l", "e", " ", BT, "f", "o", "o", BT>>,
    <<"u", "n", "r", "e", "s", "o", "l", "v", "e", "d", " ", "i", "m", "p", "o", "r", "t", " ", BT, "b", "a", "r", ":", ":", "b", "a", "z", BT>>,
    <<"h", "e", "l", "p", ":", " ", "c", "o", "n", "s", "i", "d", "e", "r", " ", "i", "m", "p", "o", "r", "t", "i", "n", "g", " ", "t", "h", "i", "s", " ", "s", "t", "r", "u", "c", "t", ":", " ", BT, "s", "e", "r", "d", "e", ":", ":", "S", "e", "r", "i", "a", "l", "i", "z", "e", BT>>,
    <<"n", "o", " ", "e", "x", "t", "e", "r", "n", "a", "l", " ", "c", "r", "a", "t", "e", " ", BT, "s", "t", "d", BT>>,
    <<"w", "a", "r", "n", "i", "n", "g", ":", " ", "u", "n", "u", "s", "e", "d">> }

\* what cargo check may write to its output stream
DrvStdout == { <<>>, <<"u", "n", "r", "e", "s", "o", "l", "v", "e", "d", " ", "i", "m", "p", "o", "r", "t", " ", BT, "b", "a", "r", BT, "\n">> }

\* the outcomes of fs::read_to_string
ReadOutcomes == {Err("io")} \cup {Ok(t) : t \in TextsOf(DrvSrcLines, MaxDrvLines)}

\* the outcomes of Command::output for cargo check: not spawned, or spawned
\* with an exit status and the two streams
CheckOutcomes ==
    {[spawned |-> FALSE, status |-> -1, stderr |-> <<>>, stdout |-> <<>>]} \cup
    {[spawned |-> TRUE, status |-> st, stderr |-> e, stdout |-> o] :
        st \in {0, 101}, e \in TextsOf(DrvDiagLines, MaxDrvLines), o \in DrvStdout}

\* the outcomes of Command::output for rustc
RustcOutcomes ==
    {[spawned |-> FALSE, status |-> -1, stderr |-> <<>>, stdout |-> <<>>]} \cup
    {[spawned |-> TRUE, status |-> st, stderr |-> e, stdout |-> <<>>] :
        st \in {0, 1}, e \in TextsOf(DrvDiagLines, MaxDrvLines)}

\* the outcomes of Command::output for cargo add
AddOutcomes == {"exit_zero", "exit_nonzero", "spawn_error"}

Cmd(prog, arg, outcome) == [prog |-> prog, arg |-> arg, outcome |-> outcome]

Ev(ev, arg) == [ev |-> ev, arg |-> arg]

ExitOutcome(o) ==
    IF ~o.spawned THEN "spawn_error"
    ELSE IF o.status = 0 THEN "exit_zero" ELSE "exit_nonzero"

\* getdir: env::current_dir().expect("NO PATH FOUND") panics on Err
getdir_panics(cwd_ok) == ~cwd_ok

\* main returns (): the exit status carries none of the results
main_exit_status_propagated(sc, pr, fb) ==
    IF sc.ok /\ (pr.ok \/ fb.ok) THEN 0 ELSE 1

main_exit_status(sc, pr, fb) == 0

\* analyze_missing_crates, its return value: the ? of line 113 returns the
\* spawn error; the exit status is not read
analyze_missing_crates_strict(o) ==
    IF ~o.spawned \/ o.status # 0 THEN Err("spawn")
    ELSE Ok(extract_missing_crates(o.stderr \o <<"\n">> \o o.stdout))

analyze_missing_crates(o) ==
    IF ~o.spawned THEN Err("spawn")
    ELSE Ok(extract_missing_crates(o.stderr \o <<"\n">> \o o.stdout))

\* what analyze_missing_crates prints before it returns Ok(missing_crates)
analyze_prints(missing_crates) ==
    IF missing_crates = <<>> THEN <<Ev("none_found", <<>>)>>
    ELSE <<Ev("missing", missing_crates), Ev("manifest", missing_crates),
           Ev("commands", missing_crates)>>

\* analyze_missing_crates_rustc, its return value
analyze_missing_crates_rustc(o) ==
    IF ~o.spawned THEN Err("spawn")
    ELSE Ok(extract_missing_crates(o.stderr))

analyze_rustc_prints(missing_crates) ==
    IF missing_crates = <<>> THEN <<Ev("none_found", <<>>)>>
    ELSE <<Ev("missing", missing_crates)>>

\* find_missing_crates, line 22: if !source_crates.is_empty()
source_guard_always(source) == TRUE

source_guard(source) == source # <<>>

\* find_missing_crates, lines 34-39: the Err arm falls through to the match
\* on analyze_missing_crates
after_source_error_return == "return"

after_source_error == "analyze"

\* find_missing_crates, line 41: if !crates.is_empty()
primary_guard_several(found) == Len(found) > 1

primary_guard(found) == found # <<>>

\* find_missing_crates, lines 57-59: if let Err(e2) = ... binds the error
\* only; the Ok value of the fallback is dropped and nothing is installed
fallback_installs_found(fb) == IF fb.ok THEN fb.val ELSE <<>>

fallback_installs(fb) == <<>>

\* install_crates, lines 68-80: no arm of the match leaves the loop
install_continues_on_success(outcome) == outcome = "exit_zero"

install_continues(outcome) == TRUE

install_marker(outcome) ==
    IF outcome = "exit_zero" THEN "installed"
    ELSE IF outcome = "exit_nonzero" THEN "failed_stderr" ELSE "spawn_error"

Init ==
    /\ pc = "main"
    /\ out = <<>> /\ cmds = <<>> /\ crates = <<>> /\ idx = 1
    /\ source_crates = Unbound /\ primary = Unbound /\ fallback = Unbound
    /\ exit_code = -1
    /\ fn = "main" /\ text = <<>> /\ result = Ok(<<>>)

\* main, lines 267-275, with getos and getdir: the banner is formatted from
\* both before anything is printed
Main ==
    /\ pc = "main"
    /\ \E os \in {"windows", "linux"}, cwd_ok \in BOOLEAN :
        IF getdir_panics(cwd_ok)
        THEN /\ pc' = "panicked"
             /\ exit_code' = 101
             /\ out' = out
        ELSE /\ pc' = "find_missing_crates"
             /\ exit_code' = exit_code
             /\ out' = Append(out, Ev("banner", <<>>))
    /\ UNCHANGED <<cmds, crates, idx, source_crates, primary, fallback, fn, text, result>>

\* find_missing_crates, lines 18-37, up to the call of install_crates
SourceStage ==
    /\ pc = "find_missing_crates"
    /\ \E read \in ReadOutcomes :
        LET sc == extract_crates_from_source(read) IN
        /\ source_crates' = sc
        /\ idx' = 1
        /\ IF ~sc.ok
           THEN /\ out' = Append(out, Ev("read_error", <<>>))
                /\ crates' = <<>>
                /\ pc' = after_source_error
           ELSE IF source_guard(sc.val)
           THEN /\ out' = out \o <<Ev("found", sc.val), Ev("attempting", <<>>)>>
                /\ crates' = sc.val
                /\ pc' = "install_source"
           ELSE /\ out' = out
                /\ crates' = <<>>
                /\ pc' = "analyze"
    /\ UNCHANGED <<cmds, primary, fallback, exit_code, fn, text, result>>

\* install_crates, one iteration of the loop of lines 65-81
InstallStep ==
    /\ pc \in {"install_source", "install_additional"}
    /\ idx <= Len(crates)
    /\ \E outcome \in AddOutcomes :
        /\ cmds' = Append(cmds, Cmd("cargo add", crates[idx], outcome))
        /\ out' = out \o <<Ev("installing", crates[idx]),
                           Ev(install_marker(outcome), crates[idx])>>
        /\ idx' = IF install_continues(outcome) THEN idx + 1 ELSE Len(crates) + 1
    /\ UNCHANGED <<pc, crates, source_crates, primary, fallback, exit_code, fn, text, result>>

\* install_crates returns, to line 31 or to line 50
InstallReturn ==
    /\ pc \in {"install_source", "install_additional"}
    /\ idx > Len(crates)
    /\ pc' = IF pc = "install_source" THEN "analyze" ELSE "return"
    /\ UNCHANGED <<out, cmds, crates, idx, source_crates, primary, fallback,
                   exit_code, fn, text, result>>

\* find_missing_crates, lines 39-56: analyze_missing_crates and the match on
\* it, up to the call of install_crates or of analyze_missing_crates_rustc
AnalyzeStage ==
    /\ pc = "analyze"
    /\ \E o \in CheckOutcomes :
        LET pr == analyze_missing_crates(o) IN
        /\ primary' = pr
        /\ cmds' = Append(cmds, Cmd("cargo check", <<>>, ExitOutcome(o)))
        /\ idx' = 1
        /\ IF ~pr.ok
           THEN /\ out' = out \o <<Ev("analyze_error", <<>>), Ev("trying_rustc", <<>>)>>
                /\ crates' = <<>>
                /\ pc' = "rustc"
           ELSE IF primary_guard(pr.val)
           THEN /\ out' = out \o analyze_prints(pr.val)
                              \o <<Ev("additional", pr.val), Ev("attempting", <<>>)>>
                /\ crates' = pr.val
                /\ pc' = "install_additional"
           ELSE /\ out' = out \o analyze_prints(pr.val)
                /\ crates' = <<>>
                /\ pc' = "return"
    /\ UNCHANGED <<source_crates, fallback, exit_code, fn, text, result>>

\* find_missing_crates, lines 57-59: analyze_missing_crates_rustc
RustcStage ==
    /\ pc = "rustc"
    /\ \E o \in RustcOutcomes :
        LET fb == analyze_missing_crates_rustc(o) IN
        /\ fallback' = fb
        /\ cmds' = Append(cmds, Cmd("rustc", <<>>, ExitOutcome(o)))
        /\ out' = out \o (IF fb.ok THEN analyze_rustc_prints(fb.val)
                          ELSE <<Ev("rustc_failed", <<>>)>>)
        /\ crates' = fallback_installs(fb)
        /\ idx' = 1
        /\ pc' = IF fallback_installs(fb) # <<>> THEN "install_additional" ELSE "return"
    /\ UNCHANGED <<source_crates, primary, exit_code, fn, text, result>>

\* find_missing_crates returns and main returns: the process exits with 0
Exit ==
    /\ pc = "return"
    /\ pc' = "exited"
    /\ exit_code' = main_exit_status(source_crates, primary, fallback)
    /\ UNCHANGED <<out, cmds, crates, idx, source_crates, primary, fallback, fn, text, result>>

Next ==
    \/ Main
    \/ SourceStage
    \/ InstallStep
    \/ InstallReturn
    \/ AnalyzeStage
    \/ RustcStage
    \/ Exit

Spec == Init /\ [][Next]_vars

-----------------------------------------------------------------------------
(* Reading the logs *)

IsAdd(c) == c.prog = "cargo add"

CheckIdx == {i \in 1..Len(cmds) : cmds[i].prog = "cargo check"}

RustcIdx == {i \in 1..Len(cmds) : cmds[i].prog = "rustc"}

ArgsOf(cs) == [i \in 1..Len(cs) |-> cs[i].arg]

\* the names cargo add was run for before cargo check was run (source stage)
SourceAdds ==
    IF CheckIdx = {} THEN ArgsOf(SelectSeq(cmds, IsAdd))
    ELSE ArgsOf(SelectSeq(SubSeq(cmds, 1, (CHOOSE i \in CheckIdx : TRUE) - 1), IsAdd))

\* the names cargo add was run for after cargo check was run
LaterAdds ==
    IF CheckIdx = {} THEN <<>>
    ELSE ArgsOf(SelectSeq(SubSeq(cmds, (CHOOSE i \in CheckIdx : TRUE) + 1, Len(cmds)), IsAdd))

IsPrefix(a, b) == Len(a) <= Len(b) /\ SubSeq(b, 1, Len(a)) = a

EvIdx(ev) == {i \in 1..Len(out) : out[i].ev = ev}

PrimaryLaunched == \E i \in CheckIdx : cmds[i].outcome # "spawn_error"

PrimaryNotLaunched == \E i \in CheckIdx : cmds[i].outcome = "spawn_error"

Finished == pc \in {"return", "exited"}

-----------------------------------------------------------------------------
(* Claims on the program, checked under Spec *)

\* C1: the fallback producer (rustc) is invoked if and only if the primary
\* producer (cargo check) could not be spawned: rustc is run at most once and
\* only after a cargo check that failed to spawn, a cargo check that was
\* spawned is never followed by rustc whatever its exit status and findings,
\* and a run whose cargo check failed to spawn has run rustc when it ends.
C1_FallbackIffPrimaryNotLaunched ==
    /\ Cardinality(CheckIdx) <= 1
    /\ Cardinality(RustcIdx) <= 1
    /\ \A r \in RustcIdx : \E i \in CheckIdx : i < r /\ cmds[i].outcome = "spawn_error"
    /\ PrimaryLaunched => RustcIdx = {} /\ pc # "rustc"
    /\ (Finished /\ PrimaryNotLaunched) => RustcIdx # {}

\* cargo check was spawned, exited non-zero and produced names; the run ended
\* without rustc
C1_Witness ==
    /\ pc = "exited"
    /\ \E i \in CheckIdx : cmds[i].outcome = "exit_nonzero"
    /\ primary.ok /\ primary.val # <<>>
    /\ RustcIdx = {}

\* C2: when cargo check could not be spawned, no cargo add is run after it:
\* the install attempts of the run are those of the source stage only, for
\* the names of the static extraction, whatever the fallback returns.
C2_NoInstallOnFallbackPath ==
    PrimaryNotLaunched =>
        /\ LaterAdds = <<>>
        /\ pc # "install_additional"
        /\ SourceAdds = source_crates.val

\* the fallback was spawned and found names; the run ended
C2_Witness ==
    /\ pc = "exited"
    /\ PrimaryNotLaunched
    /\ fallback.ok /\ fallback.val # <<>>
    /\ SourceAdds # <<>>

\* C3: when cargo check was spawned, the cargo add runs that follow it are
\* for the names the matcher returned, one per name and in order (a prefix
\* while install_crates runs, all of them when the run ends), they come
\* after the findings were printed, and there is none when no name was found.
C3_PrimaryInstallsWhatWasFound ==
    PrimaryLaunched =>
        /\ primary.ok
        /\ IsSorted(primary.val)
        /\ IsPrefix(LaterAdds, primary.val)
        /\ Finished => LaterAdds = primary.val
        /\ \A i \in EvIdx("additional") :
              /\ out[i].arg = primary.val
              /\ \E j \in EvIdx("missing") : j < i /\ out[j].arg = primary.val
        /\ primary.val # <<>> => EvIdx("additional") # {} /\ EvIdx("none_found") = {}
        /\ primary.val = <<>> => EvIdx("additional") = {} /\ EvIdx("none_found") # {}

\* cargo check was spawned, two names were found and both were attempted
C3_Witness ==
    /\ pc = "exited"
    /\ PrimaryLaunched
    /\ Len(primary.val) = 2
    /\ LaterAdds = primary.val

\* the last n entries of a log
LastN(log, n) == SubSeq(log, Len(log) - n + 1, Len(log))

\* C4: install_crates runs cargo add once for every name of its argument, in
\* order, whatever the earlier outcomes: after k iterations the last k
\* subprocesses are the adds of the first k names, each followed in the
\* output by its own marker, and install_crates returns once all names were
\* attempted, and only then.
C4_InstallEachNameOnce ==
    pc \in {"install_source", "install_additional"} =>
        /\ idx \in 1..(Len(crates) + 1)
        /\ Len(cmds) >= idx - 1
        /\ ArgsOf(LastN(cmds, idx - 1)) = SubSeq(crates, 1, idx - 1)
        /\ \A k \in 1..(idx - 1) :
              LET c == LastN(cmds, idx - 1)[k]
                  o == LastN(out, 2 * (idx - 1))
              IN  /\ IsAdd(c)
                  /\ o[2 * k - 1] = Ev("installing", crates[k])
                  /\ o[2 * k].arg = crates[k]
                  /\ o[2 * k].ev = CASE c.outcome = "exit_zero" -> "installed"
                                     [] c.outcome = "exit_nonzero" -> "failed_stderr"
                                     [] c.outcome = "spawn_error" -> "spawn_error"
        /\ (ENABLED InstallReturn) <=> idx = Len(crates) + 1
        /\ (ENABLED InstallStep) <=> idx <= Len(crates)

\* a second name is attempted after the first could not be spawned, and a
\* third after the second exited non-zero
C4_Witness ==
    /\ pc \in {"install_source", "install_additional"}
    /\ idx = 4
    /\ cmds[Len(cmds) - 2].outcome = "spawn_error"
    /\ cmds[Len(cmds) - 1].outcome = "exit_nonzero"
    /\ cmds[Len(cmds)].outcome = "exit_zero"

SourceDone == pc \notin {"main", "panicked", "find_missing_crates"}

\* C5: the source stage runs cargo add only when the extraction succeeded
\* with a non-empty result; when it returned an empty sequence no name list
\* is printed, no cargo add is run in that stage, and the program goes on to
\* cargo check.
C5_EmptyExtractionInstallsNothing ==
    /\ SourceAdds # <<>> => source_crates.ok /\ source_crates.val # <<>>
    /\ pc = "install_source" => source_crates.ok /\ source_crates.val # <<>>
    /\ (SourceDone /\ source_crates.ok /\ source_crates.val = <<>>) =>
          /\ SourceAdds = <<>>
          /\ EvIdx("found") = {}
          /\ EvIdx("attempting") # {} => EvIdx("additional") # {}
          /\ pc = "analyze" \/ CheckIdx # {}

\* the extraction returned the empty sequence and the run went through
\* cargo check to its end
C5_Witness ==
    /\ pc = "exited"
    /\ source_crates = Ok(<<>>)
    /\ CheckIdx # {}
    /\ SourceAdds = <<>>

\* C6: when the source file cannot be read the error is printed once, the
\* source stage runs no cargo add, and cargo check is still run, exactly once
\* by the end of the run, as it is after a successful source stage.
C6_ReadErrorSkipsStageOnly ==
    /\ (SourceDone /\ ~source_crates.ok) =>
          /\ Cardinality(EvIdx("read_error")) = 1
          /\ SourceAdds = <<>>
          /\ EvIdx("found") = {}
          /\ pc = "analyze" \/ Cardinality(CheckIdx) = 1
    /\ (SourceDone /\ source_crates.ok) => EvIdx("read_error") = {}
    /\ Finished => Cardinality(CheckIdx) = 1

\* the read failed and the run went through cargo check to its end
C6_Witness ==
    /\ pc = "exited"
    /\ source_crates = Err("io")
    /\ Cardinality(CheckIdx) = 1
    /\ PrimaryLaunched

\* C7 as stated: the process always ends normally with exit status 0,
\* whatever fails, a current directory that cannot be determined included.
C7_AlwaysExitsZero ==
    /\ pc # "panicked"
    /\ exit_code \in {-1, 0}

\* C7 amended: once the current directory was determined no failure is
\* fatal: whatever the file read, cargo check, rustc and cargo add do, every
\* state before the exit has a next step and the exit status is 0; the one
\* fatal error is that of getdir, which panics before anything is printed or
\* run, and the process then ends with status 101, not 0.
C7_OnlyGetdirIsFatal ==
    /\ pc = "exited" => exit_code = 0
    /\ pc = "panicked" => exit_code = 101 /\ out = <<>> /\ cmds = <<>>
                          /\ source_crates = Unbound
    /\ pc \notin {"exited", "panicked"} => exit_code = -1 /\ ENABLED Next
    /\ pc = "main" => ENABLED (Main /\ pc' = "panicked")

\* the file could not be read, neither cargo check nor rustc could be
\* spawned, and the process exited with status 0
C7_Witness ==
    /\ pc = "exited" /\ exit_code = 0
    /\ ~source_crates.ok /\ ~primary.ok /\ ~fallback.ok
    /\ \E i \in RustcIdx : cmds[i].outcome = "spawn_error"

-----------------------------------------------------------------------------
(* Claims on the extraction functions, checked under SpecFn *)

Returned(f) == pc = "fn_return" /\ fn = f

Allowlisted(name) == Str(name) \in std_modules

\* C8: no name of a returned candidate sequence, of either extraction, is in
\* the allowlist or is one of self, super, crate, and no name the diagnostic
\* matcher returns contains the path separator.
C8_CandidatesAreFiltered ==
    pc = "fn_return" =>
        \A name \in Elems(result.val) :
            /\ ~Allowlisted(name)
            /\ name \notin {kw_self, kw_super, kw_crate}
            /\ fn = "extract_missing_crates" =>
                  \A i \in 1..Len(name) : ~(name[i] = ":" /\ i < Len(name) /\ name[i + 1] = ":")

\* the matcher returned names for a text in which one of the seven patterns
\* captured a qualified path
C8_Witness ==
    /\ Returned("extract_missing_crates")
    /\ result.val # <<>>
    /\ \E n \in 1..Len(patterns), i \in 1..Len(text) :
          pattern_at(patterns[n], text, i) /\ Contains(pattern_cap(patterns[n], text, i), sep)

OneLine(line) == line \o <<"\n">>

\* C9: for the paths a::b of the family, the text unresolved import `a::b`
\* yields no name, the text unresolved import `a` yields a, and the text
\* help: consider importing this struct: `a::b` yields a.
C9_QualifiedPathAsymmetry ==
    Returned("extract_missing_crates") =>
        \A a \in PathHeads, b \in PathTails :
            /\ ~Allowlisted(a)
            /\ text = OneLine(UnresolvedImport(Qualified(a, b))) => result.val = <<>>
            /\ text = OneLine(UnresolvedImport(a)) => result.val = <<a>>
            /\ text = OneLine(ConsiderImporting(Qualified(a, b))) => result.val = <<a>>

\* the matcher returned nothing for unresolved import `bar::baz`
C9_Witness ==
    /\ Returned("extract_missing_crates")
    /\ text = OneLine(UnresolvedImport(Qualified(<<"b", "a", "r">>, <<"b", "a", "z">>)))
    /\ result.val = <<>>

\* the lines of a text: the line that starts at i, without its line feed
LineStarts(s) == {i \in 1..Len(s) : i = 1 \/ s[i - 1] = "\n"}

LineFrom(s, i) ==
    SubSeq(s, i, (CHOOSE e \in i..(Len(s) + 1) :
                      /\ e = Len(s) + 1 \/ s[e] = "\n"
                      /\ \A k \in i..(e - 1) : s[k] # "\n") - 1)

\* the line itself begins with use, whitespace and an identifier, at w
LineIdentAt(line, w) ==
    /\ Len(line) >= w /\ w > 4
    /\ SubSeq(line, 1, 3) = kw_use
    /\ \A k \in 4..(w - 1) : line[k] \in Space
    /\ line[w] \in IdentStart

IdentAt(s, w) ==
    SubSeq(s, w, (CHOOSE e \in w..(Len(s) + 1) :
                      /\ e = Len(s) + 1 \/ s[e] \notin IdentChar
                      /\ \A k \in w..(e - 1) : s[k] \in IdentChar) - 1)

LineCandidates(s) ==
    {IdentAt(LineFrom(s, i), w) : <<i, w>> \in
        {p \in LineStarts(s) \X (1..Len(s)) : LineIdentAt(LineFrom(s, p[1]), p[2])}}

\* C10 as stated: the extractor returns the sorted, duplicate-free sequence
\* of the identifiers of the lines that themselves begin with use,
\* whitespace and an identifier, allowlisted names removed; nothing is taken
\* from other lines.
C10_LineByLine ==
    Returned("extract_crates_from_source") =>
        /\ result.ok
        /\ IsSorted(result.val)
        /\ Elems(result.val) = {n \in LineCandidates(text) : ~Allowlisted(n)}

\* A use at the start of a line, followed by whitespace that may include
\* line feeds, followed by an identifier at w.
UseAt(s, i, w) ==
    /\ i \in LineStarts(s)
    /\ i + 3 < w /\ w <= Len(s)
    /\ SubSeq(s, i, i + 2) = kw_use
    /\ \A k \in (i + 3)..(w - 1) : s[k] \in Space
    /\ s[w] \in IdentStart

UsePairs(s) == {p \in (1..Len(s)) \X (1..Len(s)) : UseAt(s, p[1], p[2])}

\* Occurrences are taken from left to right and do not overlap: one that
\* starts inside an occurrence already taken (its use is the identifier of
\* that occurrence) is not taken.
TakenPairs(s) ==
    LET Taken[i \in 0..Len(s)] ==
            \E p \in UsePairs(s) :
                /\ p[1] = i
                /\ \A q \in UsePairs(s) :
                      (q[1] < i /\ i < q[2] + Len(IdentAt(s, q[2]))) => ~Taken[q[1]]
    IN  {p \in UsePairs(s) : Taken[p[1]]}

SpecExample == <<"u", "s", "e", " ", "r", "e", "g", "e", "x", ":", ":", "R", "e", "g", "e", "x", ";", "\n", "u", "s", "e", " ", "s", "t", "d", ":", ":", "f", "s", ";", "\n">>

\* C10 amended: the extractor returns the sorted, duplicate-free sequence of
\* the identifiers that follow a use at the start of a line and the
\* whitespace after it, where the whitespace may run over line feeds, so
\* that the identifier may stand on a later line than its use; occurrences
\* are taken left to right without overlap; allowlisted names are removed.
\* The example of the specification yields regex alone, and a text without
\* such an occurrence yields the empty sequence and no error.
C10_WhitespaceMayCrossLines ==
    Returned("extract_crates_from_source") =>
        /\ result.ok
        /\ IsSorted(result.val)
        /\ Elems(result.val) =
              {n \in {IdentAt(text, p[2]) : p \in TakenPairs(text)} : ~Allowlisted(n)}
        /\ text = SpecExample => result.val = << <<"r", "e", "g", "e", "x">> >>
        /\ UsePairs(text) = {} => result.val = <<>>

\* the identifier of a use that ends its line was taken from the next line
C10_Witness ==
    /\ Returned("extract_crates_from_source")
    /\ text = <<"u", "s", "e", "\n", "s", "e", "r", "d", "e", ":", ":", "S", "e", "r", "i", "a", "l", "i", "z", "e", ";", "\n">>
    /\ result = Ok(<< <<"s", "e", "r", "d", "e">> >>)

=============================================================================
